---- MODULE Spec2Model ----
(***************************************************************************)
(* Diagnostics and remediation engine of talos-pilot                       *)
(* (crates/talos-pilot-tui/src/components/diagnostics/mod.rs).             *)
(*                                                                         *)
(* The DiagnosticsComponent is one record, `self`; its methods are         *)
(* operators from a component record to a component record.  The two async *)
(* methods (refresh, apply_pending_fix) hold `&mut self` across their      *)
(* await points, so no other method runs while one of them is suspended:   *)
(* `pc` is the position of the async method in flight.                     *)
(***************************************************************************)
EXTENDS Integers, Sequences, FiniteSets, TLC

VARIABLES
    self,        \* the DiagnosticsComponent
    pc,          \* "idle" | "preamble" | "timed" | "applying"
    last_op,     \* stage of refresh / apply_pending_fix the last step ran
                 \* (Op("", "") after a step of a synchronous method)
    pre,         \* state.data at the start of the refresh in flight (Option)
    world,       \* the collaborators the refresh in flight talks to (0: none)
    exec_call,   \* executor call apply_pending_fix is suspended on (Option)
    exec_calls,  \* number of executor calls made by the last apply_pending_fix
    exec_outcome, \* answer of the executor the last step handled (Option)
    probe        \* last call of a check runner or detector on its own:
                 \* its name, its inputs and what it returned

vars == <<self, pc, last_op, pre, world, exec_call, exec_calls, exec_outcome,
          probe>>

----------------------------------------------------------------------------
(* Option<T> as a sequence of length 0 or 1 *)
None == <<>>
Some(x) == <<x>>
IsSome(o) == o # <<>>
Unwrap(o) == o[1]

----------------------------------------------------------------------------
(* Bounds *)

\* number of collaborator worlds a refresh can meet
NumWorlds == 3

\* largest category index and selection index the accessors are probed with
MaxProbe == 6

----------------------------------------------------------------------------
(* Check primitives (types.rs) *)

FixAction(kind, arg, flag) == [kind |-> kind, arg |-> arg, flag |-> flag]

is_host_command(action) == action.kind = "HostCommand"

Fix(description, action) == [description |-> description, action |-> action]

DiagnosticCheck(id, name, status, message, fix, details) ==
    [id |-> id, name |-> name, status |-> status, message |-> message,
     fix |-> fix, details |-> details]

\* the constructors the runners build their checks with
pass(id, name, message) == DiagnosticCheck(id, name, "Pass", message, None, None)
warn(id, name, message) == DiagnosticCheck(id, name, "Warn", message, None, None)
fail(id, name, message, fix) == DiagnosticCheck(id, name, "Fail", message, fix, None)
unknown(id, name) == DiagnosticCheck(id, name, "Unknown", "Unknown", None, None)
with_details(check, details) == [check EXCEPT !.details = Some(details)]

PendingAction(check_id, fix, preview) ==
    [check_id |-> check_id, fix |-> fix, preview |-> preview]

\* the checks the runners of this model return: one per FixAction variant,
\* one with details only, one with neither
CkService == DiagnosticCheck("service_kubelet", "kubelet", "Fail", "Stopped",
                 Some(Fix("Restart service", FixAction("RestartService", "kubelet", FALSE))), None)
CkModule  == DiagnosticCheck("br_netfilter", "br_netfilter", "Fail", "Not loaded",
                 Some(Fix("Load module", FixAction("AddKernelModule", "br_netfilter", FALSE))), None)
CkPatch   == DiagnosticCheck("etcd", "etcd", "Fail", "Misconfigured",
                 Some(Fix("Patch config", FixAction("ApplyConfigPatch", "cluster: {}", TRUE))), None)
CkHost    == DiagnosticCheck("cert", "Certificates", "Warn", "Expiring",
                 Some(Fix("Renew on host", FixAction("HostCommand", "talosctl gen", TRUE))),
                 Some("expires soon"))
CkCilium  == DiagnosticCheck("cni", "CNI", "Fail", "Not installed",
                 Some(Fix("Install Cilium", FixAction("InstallCilium", "", FALSE))), None)
CkShow    == DiagnosticCheck("addon", "cert-manager", "Warn", "Degraded",
                 Some(Fix("See details", FixAction("ShowDetails", "text", FALSE))), None)
CkDetails == with_details(unknown("memory", "Memory"), "fetch failed")
CkPlain   == pass("cpu_load", "CPU Load", "0.50")

DiagnosticContext ==
    [platform |-> "", is_container |-> FALSE, cpu_count |-> 1,
     k8s_error |-> None, cni_type |-> "Unknown", cni_info |-> None,
     pod_health |-> None]

DiagnosticsData(hostname, address) ==
    [hostname |-> hostname, address |-> address, context |-> DiagnosticContext,
     system_checks |-> <<>>, kubernetes_checks |-> <<>>, service_checks |-> <<>>,
     cni_checks |-> <<>>, addon_checks |-> <<>>, detected_addons |-> {}]

----------------------------------------------------------------------------
(* AsyncState<T> (talos-pilot-core) *)

with_data(d) == [data |-> Some(d), loading |-> FALSE, error |-> None]
start_loading(s) == [s EXCEPT !.loading = TRUE, !.error = None]
mark_loaded(s) == [s EXCEPT !.loading = FALSE]
state_set_error(s, e) == [s EXCEPT !.loading = FALSE, !.error = Some(e)]
set_data(s, d) == [s EXCEPT !.data = Some(d), !.loading = FALSE, !.error = None]
state_take_data(s) == [s EXCEPT !.data = None]
should_auto_refresh(s, enabled, elapsed) == enabled /\ ~s.loading /\ elapsed

----------------------------------------------------------------------------
(* Construction *)

\* the group of the component's tests (create_group_component)
Nodes == << <<"node-1", "10.0.0.1">>, <<"node-2", "10.0.0.2">> >>

Component(is_group, hostname, address, nodes) ==
    [state |-> with_data(DiagnosticsData(hostname, address)),
     selected_category |-> 0,
     selected_check |-> 0,
     pending_action |-> None,
     show_confirmation |-> FALSE,
     confirmation_selection |-> 1,
     copy_feedback_until |-> None,
     show_details |-> FALSE,
     details_title |-> "",
     details_content |-> "",
     applying_fix |-> FALSE,
     apply_result |-> None,
     auto_refresh |-> TRUE,
     client |-> None,
     is_group_view |-> is_group,
     nodes |-> nodes,
     group_view_mode |-> "Interleaved",
     node_data |-> [h \in {} |-> None],
     node_order |-> <<>>,
     selected_node_tab |-> 0]

new == Component(FALSE, "node-1", "10.0.0.1", <<>>)
new_group == Component(TRUE, "Control Plane", "", Nodes)

----------------------------------------------------------------------------
(* Accessors and navigation *)

data(c) == c.state.data

\* take_data: the data leaves the component (the caller receives it)
take_data(c) == [c EXCEPT !.state = state_take_data(c.state)]

set_client(c) == [c EXCEPT !.client = Some("client")]

set_error(c, e) == [c EXCEPT !.state = state_set_error(c.state, e)]

\* node_data is a HashMap<String, NodeDiagnosticsData>: a function whose
\* domain is the set of hostnames that have data
node_data_get(c, hostname) ==
    IF hostname \in DOMAIN c.node_data THEN Some(c.node_data[hostname].data) ELSE None

\* mutant: a node tab with nothing to show falls back to the merged data
get_display_data_fallback(c) ==
    IF c.is_group_view /\ c.group_view_mode = "ByNode"
       /\ c.selected_node_tab < Len(c.nodes)
       /\ c.nodes[c.selected_node_tab + 1][1] \in DOMAIN c.node_data
    THEN node_data_get(c, c.nodes[c.selected_node_tab + 1][1])
    ELSE data(c)

get_display_data(c) ==
    IF c.is_group_view /\ c.group_view_mode = "ByNode"
    THEN IF c.selected_node_tab >= Len(c.nodes) THEN None
         ELSE node_data_get(c, c.nodes[c.selected_node_tab + 1][1])
    ELSE data(c)

current_checks(c) ==
    LET d == get_display_data(c)
    IN  IF ~IsSome(d) THEN <<>>
        ELSE CASE c.selected_category = 0 -> Unwrap(d).system_checks
               [] c.selected_category = 1 -> Unwrap(d).kubernetes_checks
               [] c.selected_category = 2 -> Unwrap(d).cni_checks
               [] c.selected_category = 3 -> Unwrap(d).service_checks
               [] c.selected_category = 4 -> Unwrap(d).addon_checks
               [] OTHER -> <<>>

selected_check(c) ==
    IF c.selected_check < Len(current_checks(c))
    THEN Some(current_checks(c)[c.selected_check + 1])
    ELSE None

category_count == 5

next_category(c) ==
    [c EXCEPT !.selected_category = (c.selected_category + 1) % category_count,
              !.selected_check = 0]

prev_category(c) ==
    [c EXCEPT !.selected_category = IF c.selected_category = 0
                                    THEN category_count - 1
                                    ELSE c.selected_category - 1,
              !.selected_check = 0]

\* mutant: Down at the last check goes back to the first
next_check_wrapping(c) ==
    LET count == Len(current_checks(c))
    IN  IF count > 0
        THEN [c EXCEPT !.selected_check = (c.selected_check + 1) % count]
        ELSE c

next_check(c) ==
    LET count == Len(current_checks(c))
    IN  IF count > 0 /\ c.selected_check < count - 1
        THEN [c EXCEPT !.selected_check = c.selected_check + 1]
        ELSE c

prev_check(c) ==
    IF c.selected_check > 0
    THEN [c EXCEPT !.selected_check = c.selected_check - 1]
    ELSE c

\* mutant: the selection is left where it was
ensure_valid_selection_skipped(c) == c

ensure_valid_selection(c) ==
    LET count == Len(current_checks(c))
    IN  IF count = 0 THEN [c EXCEPT !.selected_check = 0]
        ELSE IF c.selected_check >= count THEN [c EXCEPT !.selected_check = count - 1]
        ELSE c

----------------------------------------------------------------------------
(* Group aggregation *)

\* mutant: the prefixed clone loses the details of the check
Prefixed_without_details(prefix, checks) ==
    [k \in 1..Len(checks) |->
        [checks[k] EXCEPT !.name = prefix \o checks[k].name, !.details = None]]

RECURSIVE Prefixed(_, _)
\* the checks of one node with "[<hostname>] " in front of each name
Prefixed(prefix, checks) ==
    IF checks = <<>> THEN <<>>
    ELSE <<[checks[1] EXCEPT !.name = prefix \o checks[1].name]>>
         \o Prefixed(prefix, Tail(checks))

\* mutant: only the node visited first is merged
Merged_first_only(c, order, field) ==
    IF order = <<>> THEN <<>>
    ELSE Prefixed("[" \o c.node_data[order[1]].hostname \o "] ",
                  c.node_data[order[1]].data[field])

RECURSIVE Merged(_, _, _)
\* one category list of the merged view, node_data.values() visited in `order`
Merged(c, order, field) ==
    IF order = <<>> THEN <<>>
    ELSE LET nd == c.node_data[order[1]]
         IN  Prefixed("[" \o nd.hostname \o "] ", nd.data[field])
             \o Merged(c, Tail(order), field)

RECURSIVE Perms(_)
Perms(S) ==
    IF S = {} THEN {<<>>}
    ELSE UNION {{<<x>> \o p : p \in Perms(S \ {x})} : x \in S}

\* the iteration orders node_data.values() can have after an insert of
\* `hostname`: replacing the value of a stored key leaves the table as it is
\* laid out; a new key can land anywhere (and may make the table grow)
Orders(c, hostname) ==
    IF hostname \in DOMAIN c.node_data THEN {c.node_order}
    ELSE Perms(DOMAIN c.node_data \cup {hostname})

\* mutant: the lists are not cleared before the merge
rebuild_group_data_appending(c) ==
    IF ~c.is_group_view \/ ~IsSome(c.state.data) THEN c
    ELSE LET old == Unwrap(c.state.data)
             d == [old EXCEPT
                     !.system_checks = @ \o Merged(c, c.node_order, "system_checks"),
                     !.kubernetes_checks = @ \o Merged(c, c.node_order, "kubernetes_checks"),
                     !.cni_checks = @ \o Merged(c, c.node_order, "cni_checks"),
                     !.service_checks = @ \o Merged(c, c.node_order, "service_checks"),
                     !.addon_checks = @ \o Merged(c, c.node_order, "addon_checks")]
         IN  [c EXCEPT !.state = set_data(state_take_data(c.state), d)]

rebuild_group_data(c) ==
    IF ~c.is_group_view THEN c
    ELSE LET order == c.node_order
             old == IF IsSome(c.state.data) THEN Unwrap(c.state.data)
                    ELSE DiagnosticsData("", "")
             d == [old EXCEPT !.system_checks = Merged(c, order, "system_checks"),
                              !.kubernetes_checks = Merged(c, order, "kubernetes_checks"),
                              !.cni_checks = Merged(c, order, "cni_checks"),
                              !.service_checks = Merged(c, order, "service_checks"),
                              !.addon_checks = Merged(c, order, "addon_checks")]
         IN  [c EXCEPT !.state = set_data(state_take_data(c.state), d)]

\* the component after the insert of add_node_diagnostics, before the
\* rebuild; node_order is the order in which node_data.values() now iterates
node_data_insert(c, hostname, d, order) ==
    [c EXCEPT !.node_data =
                  [h \in DOMAIN c.node_data \cup {hostname} |->
                      IF h = hostname THEN [hostname |-> hostname, data |-> d]
                      ELSE c.node_data[h]],
              !.node_order = order]

\* mutant: the data of a node is stored whatever the kind of session
add_node_diagnostics_unguarded(c, hostname, d, order) ==
    LET stored == node_data_insert(c, hostname, d, order)
    IN  IF c.is_group_view THEN rebuild_group_data(stored) ELSE stored

add_node_diagnostics(c, hostname, d, order) ==
    IF ~c.is_group_view THEN c
    ELSE rebuild_group_data(node_data_insert(c, hostname, d, order))

----------------------------------------------------------------------------
(* Remediation protocol *)

\* the preview initiate_fix synthesizes for a kernel-module fix
KernelModulePatch(name) == "machine:\n  kernel:\n    modules:\n      - name: " \o name

\* mutant: the patch that is applied lists the module under another key
patch_yaml_other_key(name) == "machine:\n  kernel:\n    module:\n      - name: " \o name

\* the patch text apply_pending_fix writes to the patch file
patch_yaml(name) == "machine:\n  kernel:\n    modules:\n      - name: " \o name

\* mutant: a check with no fix opens the popup whether or not it has details
initiate_fix_always_popup(c) ==
    LET sel == selected_check(c)
    IN  IF ~IsSome(sel) THEN c
        ELSE LET check == Unwrap(sel)
             IN  IF IsSome(check.fix)
                 THEN [c EXCEPT !.pending_action =
                                    Some(PendingAction(check.id, Unwrap(check.fix), None)),
                                !.show_confirmation = TRUE]
                 ELSE [c EXCEPT !.details_title = check.name,
                                !.details_content =
                                    IF IsSome(check.details) THEN Unwrap(check.details) ELSE "",
                                !.show_details = TRUE]

initiate_fix(c) ==
    LET sel == selected_check(c)
    IN  IF ~IsSome(sel) THEN c
        ELSE LET check == Unwrap(sel)
             IN  IF IsSome(check.fix)
                 THEN LET fix == Unwrap(check.fix)
                          preview ==
                              CASE fix.action.kind = "AddKernelModule" ->
                                       Some(KernelModulePatch(fix.action.arg))
                                [] fix.action.kind = "ApplyConfigPatch" ->
                                       Some(fix.action.arg)
                                [] OTHER -> None
                      IN  [c EXCEPT !.pending_action =
                                        Some(PendingAction(check.id, fix, preview)),
                                    !.show_confirmation = TRUE,
                                    !.confirmation_selection =
                                        IF is_host_command(fix.action) THEN 0 ELSE 1,
                                    !.copy_feedback_until = None]
                 ELSE IF IsSome(check.details)
                 THEN [c EXCEPT !.details_title = check.name,
                                !.details_content = Unwrap(check.details),
                                !.show_details = TRUE]
                 ELSE c

\* the call apply_pending_fix makes for a fix action: the talosctl patch
\* subprocess (when the patch file could be written), apply_configuration or
\* service_restart; None for the variants that are not applied in place
ExecutorCall(action, address, write_ok) ==
    CASE action.kind = "AddKernelModule" ->
             IF write_ok
             THEN Some([kind |-> "talosctl_patch", node |-> address,
                        payload |-> patch_yaml(action.arg), mode |-> "reboot"])
             ELSE None
      [] action.kind = "ApplyConfigPatch" ->
             Some([kind |-> "apply_configuration", node |-> "client",
                   payload |-> action.arg,
                   mode |-> IF action.flag THEN "Reboot" ELSE "Auto",
                   dry_run |-> FALSE])
      [] action.kind = "RestartService" ->
             Some([kind |-> "service_restart", node |-> "client",
                   payload |-> action.arg, mode |-> ""])
      [] OTHER -> None

Ok(v) == [ok |-> TRUE, val |-> v]
Err(m) == [ok |-> FALSE, val |-> m]

\* what the executor can answer to a call
ExecOutcomes(call) ==
    IF call.kind = "talosctl_patch"
    THEN {Ok("stdout"), Err("stderr"), Err("spawn")}
    ELSE {Ok("results"), Err("rpc error")}

\* apply_result for the answer of the executor
ApplyResult(call, outcome) ==
    CASE call.kind = "talosctl_patch" ->
             IF outcome.ok THEN Ok("[]")
             ELSE IF outcome.val = "spawn" THEN Err("Failed to run talosctl: " \o outcome.val)
             ELSE Err(outcome.val)
      [] call.kind = "apply_configuration" ->
             IF outcome.ok THEN Ok(outcome.val) ELSE Err(outcome.val)
      [] OTHER ->
             IF outcome.ok THEN Ok("[]") ELSE Err(outcome.val)

\* mutant: the client is looked up before the pending slot
apply_pending_fix_begin_client_first(c, write_ok) ==
    IF ~IsSome(c.client)
    THEN set_error([c EXCEPT !.pending_action = None], "No client configured")
    ELSE IF ~IsSome(c.pending_action) THEN c
    ELSE [c EXCEPT !.pending_action = None, !.applying_fix = TRUE,
                   !.show_confirmation = FALSE]

\* apply_pending_fix up to its executor call (or to its return when it makes none)
apply_pending_fix_begin(c, write_ok) ==
    IF ~IsSome(c.pending_action) THEN c
    ELSE LET taken == [c EXCEPT !.pending_action = None]
             pending == Unwrap(c.pending_action)
         IN  IF ~IsSome(c.client) THEN set_error(taken, "No client configured")
             ELSE LET address == IF IsSome(data(c)) THEN Unwrap(data(c)).address ELSE ""
                      call == ExecutorCall(pending.fix.action, address, write_ok)
                      started == [taken EXCEPT !.applying_fix = TRUE,
                                               !.show_confirmation = FALSE]
                  IN  IF IsSome(call) THEN started
                      ELSE IF pending.fix.action.kind = "AddKernelModule"
                      THEN [started EXCEPT
                               !.apply_result = Some(Err("Failed to write patch file")),
                               !.applying_fix = FALSE]
                      ELSE [started EXCEPT !.applying_fix = FALSE]

\* the executor call apply_pending_fix_begin suspends on (None: it returned)
apply_pending_fix_call(c, write_ok) ==
    IF ~IsSome(c.pending_action) \/ ~IsSome(c.client) THEN None
    ELSE ExecutorCall(Unwrap(c.pending_action).fix.action,
                      IF IsSome(data(c)) THEN Unwrap(data(c)).address ELSE "",
                      write_ok)

\* mutant: an error of the executor is dropped
apply_pending_fix_end_dropped(c, call, outcome) ==
    IF outcome.ok
    THEN [c EXCEPT !.apply_result = Some(ApplyResult(call, outcome)),
                   !.applying_fix = FALSE]
    ELSE [c EXCEPT !.applying_fix = FALSE]

\* mutant: an error of the executor returns early, before applying_fix is reset
apply_pending_fix_end_early(c, call, outcome) ==
    IF outcome.ok
    THEN [c EXCEPT !.apply_result = Some(ApplyResult(call, outcome)),
                   !.applying_fix = FALSE]
    ELSE [c EXCEPT !.apply_result = Some(ApplyResult(call, outcome))]

\* apply_pending_fix from the answer of the executor to its return
apply_pending_fix_end(c, call, outcome) ==
    [c EXCEPT !.apply_result = Some(ApplyResult(call, outcome)),
              !.applying_fix = FALSE]

----------------------------------------------------------------------------
(* Key handling *)

NoAction == "None"

\* the keys pressed in this model: one key of each binding, and one unbound key
Keys == {"Esc", "q", "Enter", "Left", "Right", "Down", "Up",
         "Tab", "BackTab", "r", "v", "[", "]", "x"}

Handled(c, action) == [c |-> c, ret |-> action]

\* 'v': toggle the view mode (group view only)
toggle_view_mode(c) ==
    IF c.is_group_view
    THEN [c EXCEPT !.group_view_mode =
                       IF c.group_view_mode = "Interleaved" THEN "ByNode" ELSE "Interleaved",
                   !.selected_check = 0]
    ELSE c

\* '[': previous node tab (group view in ByNode mode only)
prev_node_tab(c) ==
    IF c.is_group_view /\ c.group_view_mode = "ByNode" /\ c.selected_node_tab > 0
    THEN [c EXCEPT !.selected_node_tab = c.selected_node_tab - 1, !.selected_check = 0]
    ELSE c

\* mutant: the next tab is taken without looking at the number of nodes
next_node_tab_unbounded(c) ==
    IF c.is_group_view /\ c.group_view_mode = "ByNode"
    THEN [c EXCEPT !.selected_node_tab = c.selected_node_tab + 1, !.selected_check = 0]
    ELSE c

\* ']': next node tab (group view in ByNode mode only)
next_node_tab(c) ==
    IF c.is_group_view /\ c.group_view_mode = "ByNode"
       /\ c.selected_node_tab + 1 < Len(c.nodes)
    THEN [c EXCEPT !.selected_node_tab = c.selected_node_tab + 1, !.selected_check = 0]
    ELSE c

\* mutant: Tab changes the category while the details view is open
handle_key_event_tab_in_details(c, key) ==
    IF c.show_details
    THEN IF key \in {"Esc", "q", "Enter"}
         THEN Handled([c EXCEPT !.show_details = FALSE], NoAction)
         ELSE IF key = "Tab" THEN Handled(next_category(c), NoAction)
         ELSE Handled(c, NoAction)
    ELSE IF c.show_confirmation
    THEN LET is_host_cmd == IF IsSome(c.pending_action)
                            THEN is_host_command(Unwrap(c.pending_action).fix.action)
                            ELSE FALSE
             closed == [c EXCEPT !.show_confirmation = FALSE, !.pending_action = None]
         IN  CASE key \in {"Left", "h"} ->
                      Handled([c EXCEPT !.confirmation_selection = 0], NoAction)
               [] key \in {"Right", "l"} ->
                      Handled([c EXCEPT !.confirmation_selection = 1], NoAction)
               [] key = "Enter" ->
                      IF is_host_cmd
                      THEN IF c.confirmation_selection = 0
                           THEN Handled([c EXCEPT !.copy_feedback_until = Some("now")],
                                        NoAction)
                           ELSE Handled(closed, NoAction)
                      ELSE IF c.confirmation_selection = 0
                           THEN Handled(closed, NoAction)
                           ELSE Handled(c, "ApplyDiagnosticFix")
               [] key \in {"Esc", "q"} -> Handled(closed, NoAction)
               [] OTHER -> Handled(c, NoAction)
    ELSE CASE key \in {"q", "Esc"} -> Handled(c, "Back")
           [] key = "r" -> Handled(c, "Refresh")
           [] key \in {"Down", "j"} -> Handled(next_check(c), NoAction)
           [] key \in {"Up", "k"} -> Handled(prev_check(c), NoAction)
           [] key = "Tab" -> Handled(next_category(c), NoAction)
           [] key = "BackTab" -> Handled(prev_category(c), NoAction)
           [] key = "Enter" -> Handled(initiate_fix(c), NoAction)
           [] key = "v" -> Handled(toggle_view_mode(c), NoAction)
           [] key = "[" -> Handled(prev_node_tab(c), NoAction)
           [] key = "]" -> Handled(next_node_tab(c), NoAction)
           [] OTHER -> Handled(c, NoAction)

\* mutant: dismissing the dialog leaves the pending fix in place
handle_key_event_keeps_pending(c, key) ==
    IF c.show_details
    THEN IF key \in {"Esc", "q", "Enter"}
         THEN Handled([c EXCEPT !.show_details = FALSE], NoAction)
         ELSE Handled(c, NoAction)
    ELSE IF c.show_confirmation
    THEN LET is_host_cmd == IF IsSome(c.pending_action)
                            THEN is_host_command(Unwrap(c.pending_action).fix.action)
                            ELSE FALSE
             closed == [c EXCEPT !.show_confirmation = FALSE]
         IN  CASE key \in {"Left", "h"} ->
                      Handled([c EXCEPT !.confirmation_selection = 0], NoAction)
               [] key \in {"Right", "l"} ->
                      Handled([c EXCEPT !.confirmation_selection = 1], NoAction)
               [] key = "Enter" ->
                      IF is_host_cmd
                      THEN IF c.confirmation_selection = 0
                           THEN Handled([c EXCEPT !.copy_feedback_until = Some("now")],
                                        NoAction)
                           ELSE Handled(closed, NoAction)
                      ELSE IF c.confirmation_selection = 0
                           THEN Handled(closed, NoAction)
                           ELSE Handled(c, "ApplyDiagnosticFix")
               [] key \in {"Esc", "q"} -> Handled(closed, NoAction)
               [] OTHER -> Handled(c, NoAction)
    ELSE CASE key \in {"q", "Esc"} -> Handled(c, "Back")
           [] key = "r" -> Handled(c, "Refresh")
           [] key \in {"Down", "j"} -> Handled(next_check(c), NoAction)
           [] key \in {"Up", "k"} -> Handled(prev_check(c), NoAction)
           [] key = "Tab" -> Handled(next_category(c), NoAction)
           [] key = "BackTab" -> Handled(prev_category(c), NoAction)
           [] key = "Enter" -> Handled(initiate_fix(c), NoAction)
           [] key = "v" -> Handled(toggle_view_mode(c), NoAction)
           [] key = "[" -> Handled(prev_node_tab(c), NoAction)
           [] key = "]" -> Handled(next_node_tab(c), NoAction)
           [] OTHER -> Handled(c, NoAction)

handle_key_event(c, key) ==
    IF c.show_details
    THEN IF key \in {"Esc", "q", "Enter"}
         THEN Handled([c EXCEPT !.show_details = FALSE], NoAction)
         ELSE Handled(c, NoAction)
    ELSE IF c.show_confirmation
    THEN LET is_host_cmd == IF IsSome(c.pending_action)
                            THEN is_host_command(Unwrap(c.pending_action).fix.action)
                            ELSE FALSE
             closed == [c EXCEPT !.show_confirmation = FALSE, !.pending_action = None]
         IN  CASE key \in {"Left", "h"} ->
                      Handled([c EXCEPT !.confirmation_selection = 0], NoAction)
               [] key \in {"Right", "l"} ->
                      Handled([c EXCEPT !.confirmation_selection = 1], NoAction)
               [] key = "Enter" ->
                      IF is_host_cmd
                      THEN IF c.confirmation_selection = 0
                           THEN Handled([c EXCEPT !.copy_feedback_until = Some("now")],
                                        NoAction)
                           ELSE Handled(closed, NoAction)
                      ELSE IF c.confirmation_selection = 0
                           THEN Handled(closed, NoAction)
                           ELSE Handled(c, "ApplyDiagnosticFix")
               [] key \in {"Esc", "q"} -> Handled(closed, NoAction)
               [] OTHER -> Handled(c, NoAction)
    ELSE CASE key \in {"q", "Esc"} -> Handled(c, "Back")
           [] key = "r" -> Handled(c, "Refresh")
           [] key \in {"Down", "j"} -> Handled(next_check(c), NoAction)
           [] key \in {"Up", "k"} -> Handled(prev_check(c), NoAction)
           [] key = "Tab" -> Handled(next_category(c), NoAction)
           [] key = "BackTab" -> Handled(prev_category(c), NoAction)
           [] key = "Enter" -> Handled(initiate_fix(c), NoAction)
           [] key = "v" -> Handled(toggle_view_mode(c), NoAction)
           [] key = "[" -> Handled(prev_node_tab(c), NoAction)
           [] key = "]" -> Handled(next_node_tab(c), NoAction)
           [] OTHER -> Handled(c, NoAction)

\* Component::update: a tick asks for a refresh when the interval has elapsed
update(c, elapsed) ==
    IF should_auto_refresh(c.state, c.auto_refresh, elapsed) THEN "Refresh" ELSE NoAction

----------------------------------------------------------------------------
(* Collaborators of refresh *)

Pod(name, phase, ready) == [name |-> name, phase |-> phase, ready |-> ready, restart_count |-> 0]

\* what the collaborators answer during one refresh: version(), cpu_info(),
\* the management-API handle (None: established, Some: why not), the
\* kube-system pod list, the kubelet log (as the set of markers it contains),
\* check_pod_health, detect_addons, and the lists of the five runners
World(i) ==
    CASE i = 1 ->
           [version |-> Some("container"), cpu |-> Some(2), k8s |-> None,
            pods |-> Some(<<Pod("cilium-abc", "Running", TRUE), Pod("coredns-1", "Running", TRUE)>>),
            logs |-> Some({"cilium"}), health |-> Some("3 pods"),
            addons |-> {"cert_manager"},
            system |-> <<CkPlain, CkDetails>>, kubernetes |-> <<CkPatch>>,
            services |-> <<CkService, CkHost>>, cni |-> <<CkModule, CkCilium>>,
            addon |-> <<CkShow>>]
      [] i = 2 ->
           [version |-> None, cpu |-> None, k8s |-> Some("kubeconfig unavailable"),
            pods |-> None, logs |-> Some({"flannel", "subnet.env"}), health |-> None,
            addons |-> {},
            system |-> <<CkDetails>>, kubernetes |-> <<>>,
            services |-> <<CkService>>, cni |-> <<>>, addon |-> <<>>]
      [] OTHER ->
           [version |-> Some("metal"), cpu |-> Some(0), k8s |-> None,
            pods |-> Some(<<Pod("coredns-1", "Running", TRUE)>>),
            logs |-> Some({"calico"}), health |-> None,
            addons |-> {},
            system |-> <<CkPlain>>, kubernetes |-> <<CkPatch>>,
            services |-> <<>>, cni |-> <<CkModule>>, addon |-> <<>>]

Worlds == 1..NumWorlds

\* the worlds the session of node i loaded the data in that it hands to the
\* group: the first node hands over two different snapshots, one after the
\* other, the second node one
NodeWorlds(i) == IF i = 1 THEN {2, 3} ELSE {2}

\* CNI whose pod-name prefix the (lower-cased) name starts with
CniOfPodName(name) ==
    CASE name \in {"kube-flannel-x", "flannel-x"} -> "Flannel"
      [] name \in {"cilium-abc", "cilium-operator-1"} -> "Cilium"
      [] name \in {"calico-node-1", "calico-kube-1"} -> "Calico"
      [] OTHER -> "Unknown"

RECURSIVE detect_cni_from_k8s(_, _)
\* folds the pod list into a CniInfo, starting from `info`
detect_cni_from_k8s(pods, info) ==
    IF pods = <<>> THEN info
    ELSE LET t == CniOfPodName(pods[1].name)
         IN  detect_cni_from_k8s(Tail(pods),
                 IF t = "Unknown" THEN info
                 ELSE [cni_type |-> t, pods |-> Append(info.pods, pods[1])])

\* mutant: the log text is searched for the Cilium marker first
detect_cni_from_logs_cilium_first(logs) ==
    IF ~IsSome(logs) THEN "Unknown"
    ELSE LET text == Unwrap(logs)
         IN  IF "cilium" \in text THEN "Cilium"
             ELSE IF "flannel" \in text \/ "subnet.env" \in text THEN "Flannel"
             ELSE IF "calico" \in text \/ "felix" \in text THEN "Calico"
             ELSE "Unknown"

detect_cni_from_logs(logs) ==
    IF ~IsSome(logs) THEN "Unknown"
    ELSE LET text == Unwrap(logs)
         IN  IF "flannel" \in text \/ "subnet.env" \in text THEN "Flannel"
             ELSE IF "cilium" \in text THEN "Cilium"
             ELSE IF "calico" \in text \/ "felix" \in text THEN "Calico"
             ELSE "Unknown"

\* mutant: a type found in the log text overrides the pods
detect_cni_logs_first(w, have_k8s) ==
    LET info == IF have_k8s /\ IsSome(w.pods)
                THEN detect_cni_from_k8s(Unwrap(w.pods), [cni_type |-> "Unknown", pods |-> <<>>])
                ELSE [cni_type |-> "Unknown", pods |-> <<>>]
    IN  IF detect_cni_from_logs(w.logs) # "Unknown"
        THEN <<detect_cni_from_logs(w.logs), None>>
        ELSE IF info.cni_type # "Unknown" THEN <<info.cni_type, Some(info)>>
        ELSE <<"Unknown", None>>

\* mutant: the type of the log text is returned with the inventory of a
\* listing that determined no type
detect_cni_merged(w, have_k8s) ==
    LET info == IF have_k8s /\ IsSome(w.pods)
                THEN detect_cni_from_k8s(Unwrap(w.pods), [cni_type |-> "Unknown", pods |-> <<>>])
                ELSE [cni_type |-> "Unknown", pods |-> <<>>]
    IN  IF info.cni_type # "Unknown" THEN <<info.cni_type, Some(info)>>
        ELSE <<detect_cni_from_logs(w.logs),
               IF have_k8s /\ IsSome(w.pods) THEN Some(info) ELSE None>>

\* (cni_type, cni_info) as detect_cni computes it, given whether a
\* management-API handle exists
detect_cni(w, have_k8s) ==
    LET info == IF have_k8s /\ IsSome(w.pods)
                THEN detect_cni_from_k8s(Unwrap(w.pods), [cni_type |-> "Unknown", pods |-> <<>>])
                ELSE [cni_type |-> "Unknown", pods |-> <<>>]
    IN  IF info.cni_type # "Unknown" THEN <<info.cni_type, Some(info)>>
        ELSE <<detect_cni_from_logs(w.logs), None>>

----------------------------------------------------------------------------
(* Formatting ({} {:x} {:.N} of format!) *)

Digit(n) ==
    CASE n = 0 -> "0" [] n = 1 -> "1" [] n = 2 -> "2" [] n = 3 -> "3"
      [] n = 4 -> "4" [] n = 5 -> "5" [] n = 6 -> "6" [] n = 7 -> "7"
      [] n = 8 -> "8" [] n = 9 -> "9" [] n = 10 -> "a" [] n = 11 -> "b"
      [] n = 12 -> "c" [] n = 13 -> "d" [] n = 14 -> "e" [] OTHER -> "f"

RECURSIVE InBase(_, _)
\* the digits of the natural number n in the given base
InBase(n, base) ==
    IF n < base THEN Digit(n)
    ELSE InBase(n \div base, base) \o Digit(n % base)

\* "{}" of an integer, "{:x}" of an integer, "{}" of a bool
ToStr(n) == InBase(n, 10)
ToHex(n) == InBase(n, 16)
BoolStr(b) == IF b THEN "true" ELSE "false"

\* numerator / denominator rounded to the nearest integer, ties to even
RoundDiv(num, den) ==
    LET q == num \div den
        r == num % den
    IN  IF 2 * r > den \/ (2 * r = den /\ q % 2 = 1) THEN q + 1 ELSE q

\* "{:.0}", "{:.1}", "{:.2}" of the non-negative ratio q = <<num, den>>
Fmt0(q) == ToStr(RoundDiv(q[1], q[2]))
Fmt1(q) ==
    LET k == RoundDiv(q[1] * 10, q[2])
    IN  ToStr(k \div 10) \o "." \o Digit(k % 10)
Fmt2(q) ==
    LET k == RoundDiv(q[1] * 100, q[2])
    IN  ToStr(k \div 100) \o "." \o Digit((k \div 10) % 10) \o Digit(k % 10)

RECURSIVE JoinLines(_)
\* lines.join("\n")
JoinLines(lines) ==
    IF lines = <<>> THEN ""
    ELSE IF Len(lines) = 1 THEN lines[1]
    ELSE lines[1] \o "\n" \o JoinLines(Tail(lines))

----------------------------------------------------------------------------
(* Check runners (core.rs) *)

\* memory amounts are in tenths of a GiB, load averages in hundredths
MemInfo(mem_total, mem_available) ==
    [mem_total |-> mem_total, mem_available |-> mem_available]

\* MemInfo::usage_percent as the ratio <<numerator, denominator>>
usage_percent(info) ==
    <<(info.mem_total - info.mem_available) * 100, info.mem_total>>

\* ratio q > n
Above(q, n) == q[1] > n * q[2]

\* mutant: the thresholds of the memory check include their bound
memory_check_inclusive(info) ==
    LET usage_pct == usage_percent(info)
        msg == Fmt1(<<info.mem_total - info.mem_available, 10>>) \o " / "
               \o Fmt1(<<info.mem_total, 10>>) \o " GB (" \o Fmt0(usage_pct) \o "%)"
    IN  IF usage_pct[1] >= 90 * usage_pct[2] THEN fail("memory", "Memory", msg, None)
        ELSE IF usage_pct[1] >= 80 * usage_pct[2] THEN warn("memory", "Memory", msg)
        ELSE pass("memory", "Memory", msg)

\* the memory check of run_system_checks for one meminfo record
memory_check(info) ==
    LET usage_pct == usage_percent(info)
        msg == Fmt1(<<info.mem_total - info.mem_available, 10>>) \o " / "
               \o Fmt1(<<info.mem_total, 10>>) \o " GB (" \o Fmt0(usage_pct) \o "%)"
    IN  IF Above(usage_pct, 90) THEN fail("memory", "Memory", msg, None)
        ELSE IF Above(usage_pct, 80) THEN warn("memory", "Memory", msg)
        ELSE pass("memory", "Memory", msg)

\* run_system_checks, given the answers of client.memory() and
\* client.load_avg()
run_system_checks(mem, load) ==
    LET memory ==
            IF mem.ok
            THEN IF mem.val # <<>> /\ IsSome(mem.val[1].meminfo)
                 THEN <<memory_check(Unwrap(mem.val[1].meminfo))>>
                 ELSE <<>>
            ELSE <<with_details(unknown("memory", "Memory"), "Error: " \o mem.val)>>
        cpu ==
            IF load.ok
            THEN IF load.val # <<>>
                 THEN LET l == load.val[1]
                          msg == Fmt2(<<l.load1, 100>>) \o " / " \o Fmt2(<<l.load5, 100>>)
                                 \o " / " \o Fmt2(<<l.load15, 100>>)
                      IN  IF l.load1 > 400
                          THEN <<warn("cpu_load", "CPU Load", msg)>>
                          ELSE <<pass("cpu_load", "CPU Load", msg)>>
                 ELSE <<>>
            ELSE <<with_details(unknown("cpu_load", "CPU Load"), "Error: " \o load.val)>>
    IN  memory \o cpu

Service(id, state, health) == [id |-> id, state |-> state, health |-> health]

\* mutant: a service with no health record counts as healthy
service_check_lenient(service) ==
    LET is_healthy == IF IsSome(service.health) THEN Unwrap(service.health) ELSE TRUE
        status_msg == service.state \o " ("
                      \o (IF is_healthy THEN "healthy" ELSE "unhealthy") \o ")"
    IN  IF is_healthy
        THEN pass("service_" \o service.id, service.id, status_msg)
        ELSE fail("service_" \o service.id, service.id, status_msg,
                  Some(Fix("Restart " \o service.id,
                           FixAction("RestartService", service.id, FALSE))))

\* the check run_service_checks pushes for one service
service_check(service) ==
    LET is_healthy == IF IsSome(service.health) THEN Unwrap(service.health) ELSE FALSE
        status_msg == service.state \o " ("
                      \o (IF is_healthy THEN "healthy" ELSE "unhealthy") \o ")"
    IN  IF is_healthy
        THEN pass("service_" \o service.id, service.id, status_msg)
        ELSE fail("service_" \o service.id, service.id, status_msg,
                  Some(Fix("Restart " \o service.id,
                           FixAction("RestartService", service.id, FALSE))))

RECURSIVE services_checks(_)
\* the two nested loops of run_service_checks
services_checks(services_list) ==
    IF services_list = <<>> THEN <<>>
    ELSE [k \in 1..Len(services_list[1]) |-> service_check(services_list[1][k])]
         \o services_checks(Tail(services_list))

\* run_service_checks, given the answer of client.services(): one list of
\* services per responding node
run_service_checks(services) ==
    IF services.ok THEN services_checks(services.val)
    ELSE <<with_details(unknown("services", "Services"), "Error: " \o services.val)>>

\* a log text is the sequence of its lines, a line the set of the markers
\* it contains
contains(lines, marker) == \E i \in DOMAIN lines : marker \in lines[i]

\* the last 20 lines of the text
recent_logs(lines) ==
    IF Len(lines) > 20 THEN SubSeq(lines, Len(lines) - 19, Len(lines)) ELSE lines

\* run_kubernetes_checks, given ctx.node_role and the answers of
\* client.etcd_status() and client.logs("kubelet", 100)
run_kubernetes_checks(node_role, etcd, logs) ==
    LET etcd_checks ==
            IF node_role \in {"controlplane", "control-plane"}
            THEN IF etcd.ok
                 THEN IF etcd.val # <<>>
                      THEN <<pass("etcd", "Etcd",
                                  IF etcd.val[1].is_leader
                                  THEN "Leader, healthy"
                                  ELSE "Follower (leader: "
                                       \o ToHex(etcd.val[1].leader_id) \o ")")>>
                      ELSE <<>>
                 ELSE <<with_details(fail("etcd", "Etcd", "Unreachable", None),
                                     "Error: " \o etcd.val)>>
            ELSE <<>>
        pod_checks ==
            IF logs.ok
            THEN IF contains(recent_logs(logs.val), "CrashLoopBackOff")
                 THEN <<warn("pods_crashing", "Pod Health", "CrashLoopBackOff detected")>>
                 ELSE <<pass("pods_crashing", "Pod Health", "No issues detected")>>
            ELSE <<unknown("pods_crashing", "Pod Health")>>
    IN  etcd_checks \o pod_checks

\* (is_working, error_details), given the answer of client.logs("kubelet", 100)
check_cni_health(logs) ==
    IF logs.ok
    THEN LET recent == recent_logs(logs.val)
             has_failure == \/ contains(recent, "failed to setup network for sandbox")
                            \/ contains(recent, "network plugin is not ready")
             has_success == \/ contains(recent, "successfully setup network")
                            \/ contains(logs.val, "ADD command succeeded")
         IN  IF has_failure /\ ~has_success
             THEN <<FALSE, Some("CNI plugin failed to set up pod networking")>>
             ELSE <<TRUE, None>>
    ELSE <<FALSE, Some("Could not check CNI health: " \o logs.val)>>

----------------------------------------------------------------------------
(* CNI checks (cni/mod.rs, k8s.rs) *)

run_generic_cni_checks(logs) ==
    LET health == check_cni_health(logs)
    IN  IF health[1] THEN <<pass("cni", "CNI", "OK")>>
        ELSE <<with_details(fail("cni", "CNI", "Network setup failed", None),
                            IF IsSome(health[2]) THEN Unwrap(health[2])
                            ELSE "Unknown error")>>

CniPodInfo(name, phase, ready, restart_count) ==
    [name |-> name, phase |-> phase, ready |-> ready, restart_count |-> restart_count]

CniInfo(cni_type, pods) == [cni_type |-> cni_type, pods |-> pods]

are_cni_pods_healthy(info) ==
    IF info.pods = <<>> THEN FALSE
    ELSE \A i \in DOMAIN info.pods :
            info.pods[i].phase = "Running" /\ info.pods[i].ready

RECURSIVE Sum(_)
Sum(ints) == IF ints = <<>> THEN 0 ELSE ints[1] + Sum(Tail(ints))

cni_pod_health_summary(info) ==
    IF info.pods = <<>> THEN "No CNI pods found"
    ELSE LET total == Len(info.pods)
             healthy == Cardinality({i \in DOMAIN info.pods :
                            info.pods[i].phase = "Running" /\ info.pods[i].ready})
             total_restarts == Sum([i \in DOMAIN info.pods |-> info.pods[i].restart_count])
         IN  IF healthy = total /\ total_restarts # 0
             THEN ToStr(healthy) \o "/" \o ToStr(total) \o " pods healthy ("
                  \o ToStr(total_restarts) \o " restarts)"
             ELSE ToStr(healthy) \o "/" \o ToStr(total) \o " pods healthy"

\* the methods of types::CniInfo check_cni_pods calls
are_pods_healthy(cni_info) == are_cni_pods_healthy(cni_info)
pod_health_summary(cni_info) == cni_pod_health_summary(cni_info)

RECURSIVE unhealthy_lines(_)
\* one line per pod that is not running or not ready, in the order of the list
unhealthy_lines(pods) ==
    IF pods = <<>> THEN <<>>
    ELSE (IF pods[1].phase # "Running" \/ ~pods[1].ready
          THEN <<"  " \o pods[1].name \o " - " \o pods[1].phase
                 \o " (ready: " \o BoolStr(pods[1].ready) \o ")">>
          ELSE <<>>)
         \o unhealthy_lines(Tail(pods))

\* mutant: an empty inventory is reported like an unhealthy one
check_cni_pods_empty_fails(name, cni_info) ==
    LET healthy == are_pods_healthy(cni_info)
        summary == pod_health_summary(cni_info)
    IN  IF healthy THEN pass("cni_pods", name, summary)
        ELSE with_details(fail("cni_pods", name, summary, None),
                          "Unhealthy pods:\n" \o JoinLines(unhealthy_lines(cni_info.pods)))

check_cni_pods(name, cni_info) ==
    IF cni_info.pods = <<>>
    THEN with_details(warn("cni_pods", name, "No pods found"),
                      "Could not find CNI pods in kube-system namespace.")
    ELSE LET healthy == are_pods_healthy(cni_info)
             summary == pod_health_summary(cni_info)
         IN  IF healthy THEN pass("cni_pods", name, summary)
             ELSE with_details(fail("cni_pods", name, summary, None),
                               "Unhealthy pods:\n"
                               \o JoinLines(unhealthy_lines(cni_info.pods)))

----------------------------------------------------------------------------
(* refresh *)

\* data_mut(): apply f-updated context/data only when data is present
WithData(c, d) == [c EXCEPT !.state.data = IF IsSome(c.state.data) THEN Some(d) ELSE None]

Max(a, b) == IF a > b THEN a ELSE b

\* mutant: the client is not looked up before loading starts
refresh_start_unchecked(c) == [c EXCEPT !.state = start_loading(c.state)]

\* refresh from its entry to its first await
refresh_start(c) ==
    IF ~IsSome(c.client) THEN set_error(c, "No client configured")
    ELSE [c EXCEPT !.state = start_loading(c.state)]

\* refresh from its first await to the timed block: the context and the
\* detected add-ons are written in place
refresh_preamble(c, w) ==
    IF ~IsSome(c.state.data) THEN c
    ELSE LET d0 == Unwrap(c.state.data)
             have_k8s == ~IsSome(w.k8s)
             d1 == IF IsSome(w.version)
                   THEN [d0 EXCEPT !.context.platform = Unwrap(w.version),
                                   !.context.is_container = (Unwrap(w.version) = "container")]
                   ELSE d0
             d2 == IF IsSome(w.cpu)
                   THEN [d1 EXCEPT !.context.cpu_count = Max(Unwrap(w.cpu), 1)]
                   ELSE d1
             d3 == [d2 EXCEPT !.context.k8s_error = w.k8s]
             cni == detect_cni(w, have_k8s)
             d4 == [d3 EXCEPT !.context.cni_type = cni[1], !.context.cni_info = cni[2]]
             d5 == IF have_k8s /\ IsSome(w.health)
                   THEN [d4 EXCEPT !.context.pod_health = w.health]
                   ELSE d4
             d6 == IF have_k8s THEN [d5 EXCEPT !.detected_addons = w.addons] ELSE d5
         IN  WithData(c, d6)

\* refresh after the timed block returned the runners' lists
refresh_done(c, w) ==
    LET c1 == IF IsSome(c.state.data)
              THEN WithData(c, [Unwrap(c.state.data) EXCEPT
                                   !.system_checks = w.system,
                                   !.kubernetes_checks = w.kubernetes,
                                   !.service_checks = w.services,
                                   !.cni_checks = w.cni,
                                   !.addon_checks = w.addon])
              ELSE c
         c2 == ensure_valid_selection(c1)
    IN  [c2 EXCEPT !.state = mark_loaded(c2.state)]

\* mutant: the category that finished before the deadline is kept
refresh_timeout_partial(c) ==
    set_error(IF IsSome(c.state.data)
              THEN WithData(c, [Unwrap(c.state.data) EXCEPT !.system_checks = <<CkPlain>>])
              ELSE c,
              "Timeout fetching diagnostics")

\* refresh after the 15 s timer fired first
refresh_timeout(c) == set_error(c, "Timeout fetching diagnostics")

----------------------------------------------------------------------------
(* The state machine *)

Op(op, arg) == [op |-> op, arg |-> arg]

\* a step of a method that runs to completion without suspending
Sync(c) ==
    /\ self' = c
    /\ pc' = "idle"
    /\ last_op' = Op("", "")
    /\ pre' = None
    /\ world' = 0
    /\ exec_call' = None
    /\ exec_calls' = 0
    /\ exec_outcome' = None
    /\ UNCHANGED probe

\* no runner has been called on its own
NoProbe == [fn |-> ""]

Init ==
    /\ self \in {new, new_group}
    /\ pc = "idle"
    /\ last_op = Op("", "")
    /\ pre = None
    /\ world = 0
    /\ exec_call = None
    /\ exec_calls = 0
    /\ exec_outcome = None
    /\ probe = NoProbe

\* the node sessions own the clients and hand their loaded data to the group
\* session (take_data, add_node_diagnostics): a group session is given none
SetClient ==
    /\ pc = "idle"
    /\ ~IsSome(self.client)
    /\ ~self.is_group_view
    /\ Sync(set_client(self))

\* per-node data handed to a group session: what a node's own session loaded
NodeData(i, w) ==
    [DiagnosticsData(Nodes[i][1], Nodes[i][2]) EXCEPT
        !.system_checks = World(w).system,
        !.kubernetes_checks = World(w).kubernetes,
        !.service_checks = World(w).services,
        !.cni_checks = World(w).cni,
        !.addon_checks = World(w).addon]

\* add_node_diagnostics is public and can be called on any session
AddNodeDiagnostics ==
    /\ pc = "idle"
    /\ \E i \in DOMAIN Nodes :
         \E w \in NodeWorlds(i), order \in Orders(self, Nodes[i][1]) :
           /\ self' = add_node_diagnostics(self, Nodes[i][1], NodeData(i, w), order)
           /\ last_op' = Op("add_node_diagnostics",
                            IF ~self.is_group_view THEN "single_node"
                            ELSE IF Nodes[i][1] \notin DOMAIN self.node_data THEN "insert"
                            ELSE IF self.node_data[Nodes[i][1]].data = NodeData(i, w)
                            THEN "repeat" ELSE "replace")
    /\ pc' = "idle"
    /\ pre' = None
    /\ world' = 0
    /\ exec_call' = None
    /\ exec_calls' = 0
    /\ exec_outcome' = None
    /\ UNCHANGED probe

TakeData ==
    /\ pc = "idle"
    /\ IsSome(self.state.data)
    /\ Sync(take_data(self))

HandleKey(key) ==
    /\ pc = "idle"
    /\ Sync(handle_key_event(self, key).c)

HandleKeyEvent == \E key \in Keys : HandleKey(key)

RefreshStart ==
    /\ pc = "idle"
    /\ self' = refresh_start(self)
    /\ IF IsSome(self.client)
       THEN /\ pc' = "preamble"
            /\ last_op' = Op("refresh", "start")
            /\ pre' = Some(self.state.data)
            /\ world' \in Worlds
       ELSE /\ pc' = "idle"
            /\ last_op' = Op("refresh", "no_client")
            /\ pre' = None
            /\ world' = 0
    /\ exec_call' = None
    /\ exec_calls' = 0
    /\ exec_outcome' = None
    /\ UNCHANGED probe

\* update(Action::Tick) changes no field; when it returns Action::Refresh the
\* event loop calls refresh
Tick ==
    /\ pc = "idle"
    /\ \E elapsed \in BOOLEAN :
         IF update(self, elapsed) = "Refresh" THEN RefreshStart ELSE Sync(self)

\* every collaborator of the preamble has answered
RefreshPreamble ==
    /\ pc = "preamble"
    /\ self' = refresh_preamble(self, World(world))
    /\ pc' = "timed"
    /\ last_op' = Op("refresh", "preamble")
    /\ UNCHANGED <<pre, world, exec_call, exec_calls, exec_outcome, probe>>

\* the runners finished before the timer
RefreshDone ==
    /\ pc = "timed"
    /\ self' = refresh_done(self, World(world))
    /\ pc' = "idle"
    /\ last_op' = Op("refresh", "done")
    /\ pre' = None
    /\ world' = 0
    /\ UNCHANGED <<exec_call, exec_calls, exec_outcome, probe>>

\* the timer fired before the runners finished
RefreshTimeout ==
    /\ pc = "timed"
    /\ self' = refresh_timeout(self)
    /\ pc' = "idle"
    /\ last_op' = Op("refresh", "timeout")
    /\ pre' = None
    /\ world' = 0
    /\ UNCHANGED <<exec_call, exec_calls, exec_outcome, probe>>

ApplyBegin ==
    /\ pc = "idle"
    /\ \E write_ok \in BOOLEAN :
         LET call == apply_pending_fix_call(self, write_ok)
         IN  /\ self' = apply_pending_fix_begin(self, write_ok)
             /\ exec_call' = call
             /\ exec_calls' = IF IsSome(call) THEN 1 ELSE 0
             /\ pc' = IF IsSome(call) THEN "applying" ELSE "idle"
             /\ last_op' = Op("apply_pending_fix",
                              IF ~IsSome(self.pending_action) THEN "no_pending"
                              ELSE IF ~IsSome(self.client) THEN "no_client"
                              ELSE IF IsSome(call) THEN "call" ELSE "no_call")
    /\ pre' = None
    /\ world' = 0
    /\ exec_outcome' = None
    /\ UNCHANGED probe

ApplyReturn ==
    /\ pc = "applying"
    /\ \E outcome \in ExecOutcomes(Unwrap(exec_call)) :
         /\ self' = apply_pending_fix_end(self, Unwrap(exec_call), outcome)
         /\ exec_outcome' = Some(outcome)
    /\ pc' = "idle"
    /\ last_op' = Op("apply_pending_fix", "return")
    /\ exec_call' = None
    /\ UNCHANGED <<pre, world, exec_calls, probe>>

Next ==
    \/ SetClient
    \/ AddNodeDiagnostics
    \/ TakeData
    \/ HandleKeyEvent
    \/ Tick
    \/ RefreshStart
    \/ RefreshPreamble
    \/ RefreshDone
    \/ RefreshTimeout
    \/ ApplyBegin
    \/ ApplyReturn

Spec == Init /\ [][Next]_vars

\* the timer of the timed block fires unless the block returns first; no
\* collaborator is obliged to answer
FairSpec == Spec /\ WF_vars(RefreshTimeout)

----------------------------------------------------------------------------
(* The detector and the check runners, each called on its own *)

\* answers of the kube-system pod listing (None: the listing failed)
PodLists ==
    { <<>>,
      <<Pod("coredns-1", "Running", TRUE)>>,
      <<Pod("cilium-abc", "Running", TRUE), Pod("coredns-1", "Running", TRUE)>>,
      <<Pod("kube-flannel-x", "Pending", FALSE)>>,
      <<Pod("calico-node-1", "Running", TRUE), Pod("cilium-operator-1", "Running", FALSE)>> }

PodListings == {None} \cup {Some(l) : l \in PodLists}

\* the markers detect_cni_from_logs looks for; a kubelet log as the set of
\* the markers it contains (None: the log could not be fetched)
Markers == {"flannel", "subnet.env", "cilium", "calico", "felix"}

LogTexts == {None} \cup {Some(t) : t \in SUBSET Markers}

\* answers of client.memory(): (mem_total, mem_available) in tenths of a GiB
MemSamples ==
    {<<10, a>> : a \in 0..10} \cup {<<160, a>> : a \in {0, 10, 16, 28, 32, 40, 160}}

MemAnswers ==
    {Err("unavailable"), Ok(<<>>), Ok(<<[meminfo |-> None]>>)}
    \cup {Ok(<<[meminfo |-> Some(MemInfo(s[1], s[2]))]>>) : s \in MemSamples}

\* answers of client.load_avg(), in hundredths
LoadAnswers ==
    {Err("unavailable"), Ok(<<>>)}
    \cup {Ok(<<[load1 |-> l, load5 |-> 125, load15 |-> 50]>>) : l \in {50, 400, 401}}

\* answers of client.services()
Services ==
    {Service(id, "Running", h) : id \in {"kubelet", "etcd"},
                                 h \in {None, Some(TRUE), Some(FALSE)}}

NodeServices ==
    {<<>>} \cup {<<s>> : s \in Services} \cup {<<s, t>> : s \in Services, t \in Services}

ServiceAnswers ==
    {Err("unavailable"), Ok(<<>>)}
    \cup {Ok(<<n>>) : n \in NodeServices}
    \cup {Ok(<<n, <<Service("apid", "Finished", None)>>>>) : n \in NodeServices}

\* answers of client.etcd_status()
EtcdAnswers ==
    {Err("unavailable"), Ok(<<>>),
     Ok(<<[is_leader |-> TRUE, leader_id |-> 26]>>),
     Ok(<<[is_leader |-> FALSE, leader_id |-> 26]>>)}

\* answers of client.logs("kubelet", 100): a text of n lines whose first
\* line holds the markers in head and whose last line those in tail
LogMarkerSets ==
    { {}, {"CrashLoopBackOff"}, {"failed to setup network for sandbox"},
      {"network plugin is not ready"}, {"successfully setup network"},
      {"ADD command succeeded"} }

Log(head, tail, n) == [i \in 1..n |-> IF i = 1 THEN head ELSE IF i = n THEN tail ELSE {}]

KubeletLogs ==
    {Err("unavailable")}
    \cup {Ok(Log(head, tail, n)) : head \in LogMarkerSets, tail \in LogMarkerSets, n \in {2, 21}}

\* inventories handed to check_cni_pods
CniPods(name) ==
    {CniPodInfo(name, phase, ready, restarts) :
        phase \in {"Running", "Pending"}, ready \in BOOLEAN, restarts \in {0, 2}}

Inventories ==
    {<<>>} \cup {<<p>> : p \in CniPods("cilium-abc")}
    \cup {<<p, q>> : p \in CniPods("cilium-abc"), q \in CniPods("cilium-operator-1")}

ProbeDetectCni ==
    /\ \E handle \in BOOLEAN, pods \in PodListings, logs \in LogTexts :
         probe' = [fn |-> "detect_cni", handle |-> handle, pods |-> pods, logs |-> logs,
                   out |-> detect_cni([pods |-> pods, logs |-> logs], handle)]
    /\ UNCHANGED <<self, pc, last_op, pre, world, exec_call, exec_calls, exec_outcome>>

ProbeSystemChecks ==
    /\ \E mem \in MemAnswers, load \in LoadAnswers :
         probe' = [fn |-> "run_system_checks", mem |-> mem, load |-> load,
                   out |-> run_system_checks(mem, load)]
    /\ UNCHANGED <<self, pc, last_op, pre, world, exec_call, exec_calls, exec_outcome>>

ProbeServiceChecks ==
    /\ \E services \in ServiceAnswers :
         probe' = [fn |-> "run_service_checks", services |-> services,
                   out |-> run_service_checks(services)]
    /\ UNCHANGED <<self, pc, last_op, pre, world, exec_call, exec_calls, exec_outcome>>

ProbeKubernetesChecks ==
    /\ \E node_role \in {"controlplane", "worker"}, etcd \in EtcdAnswers,
          logs \in KubeletLogs :
         probe' = [fn |-> "run_kubernetes_checks", node_role |-> node_role,
                   etcd |-> etcd, logs |-> logs,
                   out |-> run_kubernetes_checks(node_role, etcd, logs)]
    /\ UNCHANGED <<self, pc, last_op, pre, world, exec_call, exec_calls, exec_outcome>>

ProbeGenericCniChecks ==
    /\ \E logs \in KubeletLogs :
         probe' = [fn |-> "run_generic_cni_checks", logs |-> logs,
                   out |-> run_generic_cni_checks(logs)]
    /\ UNCHANGED <<self, pc, last_op, pre, world, exec_call, exec_calls, exec_outcome>>

ProbeCniPods ==
    /\ \E name \in {"Cilium Pods", "Calico Pods"}, pods \in Inventories :
         probe' = [fn |-> "check_cni_pods", name |-> name, pods |-> pods,
                   out |-> check_cni_pods(name, CniInfo("Cilium", pods))]
    /\ UNCHANGED <<self, pc, last_op, pre, world, exec_call, exec_calls, exec_outcome>>

RunnersInit == Init /\ self = new

RunnersNext ==
    \/ ProbeDetectCni
    \/ ProbeSystemChecks
    \/ ProbeServiceChecks
    \/ ProbeKubernetesChecks
    \/ ProbeGenericCniChecks
    \/ ProbeCniPods

RunnersSpec == RunnersInit /\ [][RunnersNext]_vars

----------------------------------------------------------------------------
(* A group session that was given a client *)

\* set_client is public and does not look at is_group_view
GroupClientInit ==
    /\ self = set_client(new_group)
    /\ pc = "idle"
    /\ last_op = Op("", "")
    /\ pre = None
    /\ world = 0
    /\ exec_call = None
    /\ exec_calls = 0
    /\ exec_outcome = None
    /\ probe = NoProbe

\* the node sessions hand over their data, the user presses keys and
\* confirmed fixes are applied
GroupClientNext ==
    \/ AddNodeDiagnostics
    \/ HandleKeyEvent
    \/ ApplyBegin
    \/ ApplyReturn

GroupClientSpec == GroupClientInit /\ [][GroupClientNext]_vars

----------------------------------------------------------------------------
(* Claims *)

\* the steps of the state machine
ApplyEntered == pc = "idle" /\ last_op'.op = "apply_pending_fix"
ApplyReturned == last_op'.op = "apply_pending_fix" /\ last_op'.arg \in {"return", "no_call"}
RefreshEntered == pc = "idle" /\ last_op'.op = "refresh"
RefreshReturned == pc # "idle" /\ pc' = "idle" /\ last_op'.op = "refresh"

\* the five check lists of an Option<DiagnosticsData>
CheckLists(d) ==
    IF IsSome(d)
    THEN <<Unwrap(d).system_checks, Unwrap(d).kubernetes_checks, Unwrap(d).service_checks,
           Unwrap(d).cni_checks, Unwrap(d).addon_checks>>
    ELSE <<>>

\* the executor call that belongs to a FixAction variant
CallKindOf(kind) ==
    CASE kind = "AddKernelModule" -> "talosctl_patch"
      [] kind = "ApplyConfigPatch" -> "apply_configuration"
      [] kind = "RestartService" -> "service_restart"
      [] OTHER -> "none"

\* C1: a mutating executor call is made only by apply_pending_fix entered with
\* pending_action set; pending_action is set only by initiate_fix (Enter
\* outside the dialogs) on a selected check that carries a fix; and
\* handle_key_event returns ApplyDiagnosticFix only for Enter while the
\* confirmation dialog is shown with Apply selected on a pending fix that is
\* not a host command.
C1_OnlyConfirmedFixesApplied ==
    [][ /\ (IsSome(exec_call') /\ ~IsSome(exec_call))
           => (ApplyEntered /\ IsSome(self.pending_action))
        /\ (IsSome(self'.pending_action) /\ self'.pending_action # self.pending_action)
           => /\ pc = "idle" /\ ~self.show_details /\ ~self.show_confirmation
              /\ self' = initiate_fix(self)
              /\ IsSome(selected_check(self))
              /\ Unwrap(self'.pending_action).fix \in
                     {Unwrap(selected_check(self)).fix[i] :
                         i \in DOMAIN Unwrap(selected_check(self)).fix}
        /\ \A key \in Keys :
             handle_key_event(self', key).ret = "ApplyDiagnosticFix"
             => /\ key = "Enter"
                /\ self'.show_confirmation
                /\ self'.confirmation_selection = 1
                /\ IsSome(self'.pending_action)
                /\ ~is_host_command(Unwrap(self'.pending_action).fix.action)
      ]_vars

\* C2: apply_pending_fix entered with a pending fix and a client makes, for
\* every FixAction variant, exactly one executor call, of the kind of the
\* variant, and on return apply_result is the outcome of that call.
C2_ExactlyOneCallPerApply ==
    [][ /\ (ApplyEntered /\ IsSome(self.pending_action) /\ IsSome(self.client))
           => /\ exec_calls' = 1
              /\ IsSome(exec_call')
              /\ Unwrap(exec_call').kind =
                     CallKindOf(Unwrap(self.pending_action).fix.action.kind)
        /\ ApplyReturned
           => /\ exec_calls' = 1
              /\ IsSome(exec_outcome')
              /\ self'.apply_result =
                     Some(ApplyResult(Unwrap(exec_call), Unwrap(exec_outcome')))
      ]_vars

\* C3: when the executor call of apply_pending_fix returned an error,
\* apply_pending_fix has returned with apply_result = Some(Err(message)),
\* applying_fix false and the pending slot empty.
C3_ExecutorErrorReported ==
    (last_op = Op("apply_pending_fix", "return") /\ ~Unwrap(exec_outcome).ok)
    => /\ pc = "idle"
       /\ IsSome(self.apply_result)
       /\ ~Unwrap(self.apply_result).ok
       /\ Unwrap(self.apply_result).val \in
              {Unwrap(exec_outcome).val,
               "Failed to run talosctl: " \o Unwrap(exec_outcome).val}
       /\ ~self.applying_fix
       /\ ~IsSome(self.pending_action)

C3_Witness ==
    /\ last_op = Op("apply_pending_fix", "return")
    /\ ~Unwrap(exec_outcome).ok
    /\ IsSome(self.apply_result)

\* C4: apply_pending_fix entered with no pending action returns at once,
\* makes no executor call and changes no field of the component.
C4_NoPendingIsNoOp ==
    [][ (ApplyEntered /\ ~IsSome(self.pending_action))
        => /\ self' = self
           /\ pc' = "idle"
           /\ exec_calls' = 0
           /\ ~IsSome(exec_call')
      ]_vars

C4_Witness ==
    /\ last_op = Op("apply_pending_fix", "no_pending")
    /\ pc = "idle"
    /\ ~IsSome(self.pending_action)

\* C5: initiate_fix (Enter outside the dialogs) on a selected check with no
\* fix and with details opens the details view with the check's name and
\* details and leaves pending_action None and show_confirmation false; with
\* neither fix nor details, or with no selected check, it changes nothing.
C5_DetailsOnlyCheck ==
    [][ (HandleKey("Enter") /\ ~self.show_details /\ ~self.show_confirmation)
        => LET sel == selected_check(self)
           IN  /\ (IsSome(sel) /\ ~IsSome(Unwrap(sel).fix) /\ IsSome(Unwrap(sel).details))
                  => /\ self' = [self EXCEPT !.show_details = TRUE,
                                             !.details_title = Unwrap(sel).name,
                                             !.details_content = Unwrap(Unwrap(sel).details)]
                     /\ ~IsSome(self'.pending_action)
                     /\ ~self'.show_confirmation
               /\ (~IsSome(sel)
                   \/ (~IsSome(Unwrap(sel).fix) /\ ~IsSome(Unwrap(sel).details)))
                  => self' = self
      ]_vars

C5_Witness ==
    /\ self.show_details
    /\ self.details_title = "[node-2] Memory"
    /\ self.details_content = "fetch failed"
    /\ ~IsSome(self.pending_action)
    /\ ~self.show_confirmation

\* C6: applying_fix is true only while one apply_pending_fix is suspended on
\* its executor call, and the only step taken from such a state is the return
\* of that call, which resets applying_fix: no initiate_fix and no second
\* apply_pending_fix takes effect in between.
C6_OneFixInFlight ==
    [][ /\ self'.applying_fix
           => (pc' = "applying" /\ IsSome(exec_call') /\ exec_calls' = 1)
        /\ self.applying_fix
           => /\ ApplyReturn
              /\ ~self'.applying_fix
              /\ self'.pending_action = self.pending_action
      ]_vars

C6_Witness ==
    /\ self.applying_fix
    /\ pc = "applying"
    /\ IsSome(exec_call)

\* C7: when the timed block of refresh times out, refresh returns with the
\* session error "Timeout fetching diagnostics" and the five check lists as
\* they were before the refresh.
C7_TimeoutKeepsLists ==
    [][ (pc = "timed" /\ last_op' = Op("refresh", "timeout"))
        => /\ pc' = "idle"
           /\ self'.state.error = Some("Timeout fetching diagnostics")
           /\ ~self'.state.loading
           /\ CheckLists(self'.state.data) = CheckLists(Unwrap(pre))
      ]_vars

C7_Witness ==
    /\ last_op = Op("refresh", "timeout")
    /\ self.state.error = Some("Timeout fetching diagnostics")
    /\ IsSome(self.state.data)
    /\ CheckLists(self.state.data)[1] # <<>>

\* every refreshable field of the snapshot is written by a refresh in world w
\* that completes
WritesEveryField(w) ==
    IsSome(w.version) /\ IsSome(w.cpu) /\ ~IsSome(w.k8s) /\ IsSome(w.health)

\* C8: after a refresh returns, DiagnosticsData is either the snapshot held
\* before the refresh or entirely the result of this refresh; a refresh that
\* ends in an error leaves the snapshot unchanged.
C8_RefreshAllOrNothing ==
    [][ /\ RefreshReturned
           => \/ self'.state.data = Unwrap(pre)
              \/ (~IsSome(self'.state.error) /\ WritesEveryField(World(world)))
        /\ (RefreshEntered /\ pc' = "idle") => self'.state.data = self.state.data
      ]_vars

\* C9: refresh entered with no client sets the session error to "No client
\* configured" and changes nothing else: no Loading, no collaborator call,
\* data and selection unchanged; and every step that sets a session error
\* leaves the data slot as it was.
C9_NoClientErrorOnly ==
    [][ /\ (RefreshEntered /\ ~IsSome(self.client))
           => /\ self' = [self EXCEPT !.state.error = Some("No client configured")]
              /\ ~self'.state.loading
              /\ pc' = "idle"
              /\ world' = 0
        /\ (IsSome(self'.state.error) /\ self'.state.error # self.state.error)
           => self'.state.data = self.state.data
      ]_vars

C9_Witness ==
    /\ last_op = Op("refresh", "no_client")
    /\ self.state.error = Some("No client configured")
    /\ IsSome(self.state.data)
    /\ CheckLists(self.state.data)[1] # <<>>

\* C10: every refresh terminates, whatever the collaborators do: a refresh
\* that has started returns, and the session is not left in Loading.
C10_RefreshTerminates ==
    (pc \in {"preamble", "timed"}) ~> (pc = "idle" /\ ~self.state.loading)

\* the step in which a refresh returns with the runners' lists
RefreshSucceeded == pc = "timed" /\ last_op' = Op("refresh", "done")

\* the component probed with category index cat and selection index idx
Probe(cat, idx) == [self EXCEPT !.selected_category = cat, !.selected_check = idx]

\* C11: in every reachable state the five check lists exist (the session
\* holds a DiagnosticsData), selected_category is in 0..4, and for any
\* category index and any selection index current_checks is a list (empty
\* for an index that names no category) and selected_check is None when the
\* index is not inside it.
C11_ListsPresentAccessorsTotal ==
    /\ IsSome(self.state.data)
    /\ Len(CheckLists(self.state.data)) = 5
    /\ self.selected_category \in 0..4
    /\ \A cat \in 0..MaxProbe, idx \in 0..MaxProbe :
         LET c == Probe(cat, idx)
         IN  /\ Len(current_checks(c)) >= 0
             /\ (cat > 4 => current_checks(c) = <<>>)
             /\ (idx >= Len(current_checks(c)) => selected_check(c) = None)
             /\ (idx < Len(current_checks(c))
                   => selected_check(c) = Some(current_checks(c)[idx + 1]))

\* C12: when refresh completes without timeout, the five check lists of the
\* session are the lists this refresh's runners returned, replaced in one
\* step, in whatever state the refresh was called.
C12_SuccessReplacesLists ==
    [][ RefreshSucceeded
        => /\ pc' = "idle"
           /\ CheckLists(self'.state.data) =
                  <<World(world).system, World(world).kubernetes, World(world).services,
                    World(world).cni, World(world).addon>>
      ]_vars

\* C13: after a successful refresh selected_category is unchanged and
\* selected_check is 0 when the list of the selected category is now empty,
\* otherwise at most its length minus one, and unchanged when it was already
\* inside the new list.
C13_SelectionClampedAfterRefresh ==
    [][ RefreshSucceeded
        => LET n == Len(current_checks(self'))
           IN  /\ self'.selected_category = self.selected_category
               /\ (n = 0 => self'.selected_check = 0)
               /\ (n > 0 => self'.selected_check <= n - 1)
               /\ (self.selected_check < n => self'.selected_check = self.selected_check)
      ]_vars

C13_Witness ==
    /\ last_op = Op("refresh", "done")
    /\ self.selected_category = 3
    /\ Len(current_checks(self)) = 1
    /\ self.selected_check = 0
    /\ ~IsSome(self.state.error)

\* C14: outside the dialogs, Tab and BackTab (next_category, prev_category)
\* set selected_check to 0; Down and Up (next_check, prev_check) leave
\* selected_category alone and do not wrap: Down at the last check or on an
\* empty list and Up at index 0 leave selected_check unchanged, otherwise they
\* move it by one.
C14_NavigationClamps ==
    [][ (pc = "idle" /\ ~self.show_details /\ ~self.show_confirmation)
        => LET n == Len(current_checks(self))
           IN  /\ HandleKey("Tab")
                  => /\ self'.selected_check = 0
                     /\ self'.selected_category = (self.selected_category + 1) % 5
               /\ HandleKey("BackTab")
                  => /\ self'.selected_check = 0
                     /\ self'.selected_category = (self.selected_category + 4) % 5
               /\ HandleKey("Down")
                  => /\ self'.selected_category = self.selected_category
                     /\ self'.selected_check =
                            IF n = 0 \/ self.selected_check >= n - 1
                            THEN self.selected_check ELSE self.selected_check + 1
               /\ HandleKey("Up")
                  => /\ self'.selected_category = self.selected_category
                     /\ self'.selected_check =
                            IF self.selected_check = 0 THEN 0 ELSE self.selected_check - 1
      ]_vars

C14_Witness ==
    /\ pc = "idle" /\ ~self.show_details /\ ~self.show_confirmation
    /\ Len(current_checks(self)) >= 2
    /\ self.selected_check = Len(current_checks(self)) - 1
    /\ next_check(self) = self
    /\ prev_check(self).selected_check = self.selected_check - 1

\* the category fields of DiagnosticsData
Categories ==
    {"system_checks", "kubernetes_checks", "cni_checks", "service_checks", "addon_checks"}

\* the elements of a list
Range(seq) == {seq[k] : k \in DOMAIN seq}

RECURSIVE SumOfLengths(_, _, _)
\* the number of checks of category f over the hostnames in hosts
SumOfLengths(c, hosts, f) ==
    IF hosts = {} THEN 0
    ELSE LET h == CHOOSE x \in hosts : TRUE
         IN  Len(c.node_data[h].data[f]) + SumOfLengths(c, hosts \ {h}, f)

\* check m is check src of node h as the interleaved view shows it
ShownAs(m, h, src) ==
    /\ m.name = "[" \o h \o "] " \o src.name
    /\ m.id = src.id
    /\ m.status = src.status
    /\ m.message = src.message
    /\ m.fix = src.fix
    /\ m.details = src.details

C16_MergedIsRebuiltFromCurrent ==
    (self.is_group_view /\ last_op.op = "add_node_diagnostics")
    => /\ IsSome(data(self))
       /\ \A f \in Categories :
            LET merged == Unwrap(data(self))[f]
            IN  /\ Len(merged) = SumOfLengths(self, DOMAIN self.node_data, f)
                /\ \A m \in Range(merged) :
                     \E h \in DOMAIN self.node_data :
                       \E src \in Range(self.node_data[h].data[f]) : ShownAs(m, h, src)
                /\ \A h \in DOMAIN self.node_data :
                     \A src \in Range(self.node_data[h].data[f]) :
                       \E m \in Range(merged) : ShownAs(m, h, src)

C16_Witness ==
    /\ self.is_group_view
    /\ last_op = Op("add_node_diagnostics", "replace")
    /\ DOMAIN self.node_data = {"node-1", "node-2"}
    /\ self.node_data["node-1"].data = NodeData(1, 3)
    /\ Len(Unwrap(data(self)).service_checks) = 1
    /\ Len(Unwrap(data(self)).system_checks) = 2

C18_ByNodeNoDataIsNone ==
    self.is_group_view
    => \A t \in 0..MaxProbe :
         LET c == [self EXCEPT !.group_view_mode = "ByNode", !.selected_node_tab = t]
         IN  IF t >= Len(c.nodes) \/ c.nodes[t + 1][1] \notin DOMAIN c.node_data
             THEN /\ get_display_data(c) = None
                  /\ \A cat \in 0..4 :
                       current_checks([c EXCEPT !.selected_category = cat]) = <<>>
             ELSE /\ get_display_data(c) = Some(c.node_data[c.nodes[t + 1][1]].data)
                  /\ Unwrap(get_display_data(c)).hostname = c.nodes[t + 1][1]

C18_Witness ==
    /\ self.is_group_view
    /\ self.group_view_mode = "ByNode"
    /\ self.selected_node_tab = 1
    /\ DOMAIN self.node_data = {"node-1"}
    /\ IsSome(data(self))
    /\ Unwrap(data(self)).system_checks # <<>>
    /\ get_display_data(self) = None
    /\ current_checks(self) = <<>>

\* C19: a group session in Interleaved mode always has display data: in every
\* reachable state get_display_data is Some, with its five lists.
C19_InterleavedDataPresent ==
    (self.is_group_view /\ self.group_view_mode = "Interleaved")
    => /\ IsSome(get_display_data(self))
       /\ Len(CheckLists(get_display_data(self))) = 5

\* C20: outside the dialogs, in a group session 'v' toggles the mode and sets
\* selected_check to 0, '[' and ']' move the node tab by at most one, only in
\* ByNode mode, set selected_check to 0 when they move it and leave it below
\* nodes.len(); in a single-node session the three keys change nothing.
C20_ModeAndTabKeys ==
    [][ (pc = "idle" /\ ~self.show_details /\ ~self.show_confirmation)
        => /\ HandleKey("v")
              => IF self.is_group_view
                 THEN /\ self'.group_view_mode # self.group_view_mode
                      /\ self'.selected_check = 0
                      /\ self'.selected_node_tab = self.selected_node_tab
                 ELSE self' = self
           /\ \A key \in {"[", "]"} :
                HandleKey(key)
                => IF self.is_group_view
                   THEN /\ self'.selected_node_tab < Len(self'.nodes)
                        /\ self'.selected_node_tab \in
                               {self.selected_node_tab,
                                self.selected_node_tab + (IF key = "]" THEN 1 ELSE -1)}
                        /\ (self'.selected_node_tab # self.selected_node_tab
                            => /\ self'.selected_check = 0
                               /\ self.group_view_mode = "ByNode")
                        /\ self'.group_view_mode = self.group_view_mode
                   ELSE self' = self
      ]_vars

C20_Witness ==
    /\ self.is_group_view
    /\ self.group_view_mode = "ByNode"
    /\ self.selected_node_tab = Len(self.nodes) - 1
    /\ self.selected_node_tab > 0
    /\ self.selected_check = 0
    /\ next_node_tab(self) = self

----------------------------------------------------------------------------
(* Detection and check runners *)

\* the probed detect_cni call got no type from the management API: no
\* handle, a failed listing, or a listing without a CNI pod
PrimaryExhausted ==
    \/ ~probe.handle
    \/ ~IsSome(probe.pods)
    \/ \A i \in DOMAIN Unwrap(probe.pods) :
          CniOfPodName(Unwrap(probe.pods)[i].name) = "Unknown"

\* the types of the CNI pods of a listing
PodTypes(pods) == {CniOfPodName(pods[i].name) : i \in DOMAIN pods} \ {"Unknown"}

\* the markers of each plugin
MarkersOf(plugin) ==
    CASE plugin = "Flannel" -> {"flannel", "subnet.env"}
      [] plugin = "Cilium" -> {"cilium"}
      [] plugin = "Calico" -> {"calico", "felix"}

\* C21: when the management-API path is unavailable or yields no CNI pod,
\* detection returns Flannel if the log text holds a Flannel marker, else
\* Cilium if it holds "cilium", else Calico if it holds "calico" or "felix",
\* else Unknown; a failed log fetch gives Unknown; with no handle and a text
\* holding only markers of one plugin the result is that plugin.
C21_LogFallbackOrder ==
    (probe.fn = "detect_cni" /\ PrimaryExhausted)
    => /\ probe.out[1] =
              IF ~IsSome(probe.logs) THEN "Unknown"
              ELSE IF Unwrap(probe.logs) \cap MarkersOf("Flannel") # {} THEN "Flannel"
              ELSE IF Unwrap(probe.logs) \cap MarkersOf("Cilium") # {} THEN "Cilium"
              ELSE IF Unwrap(probe.logs) \cap MarkersOf("Calico") # {} THEN "Calico"
              ELSE "Unknown"
       /\ \A plugin \in {"Flannel", "Cilium", "Calico"} :
             (/\ ~probe.handle
              /\ IsSome(probe.logs)
              /\ Unwrap(probe.logs) # {}
              /\ Unwrap(probe.logs) \subseteq MarkersOf(plugin))
             => probe.out[1] = plugin

C21_Witness ==
    /\ probe.fn = "detect_cni"
    /\ ~probe.handle
    /\ probe.logs = Some({"calico", "cilium"})
    /\ probe.out = <<"Cilium", None>>

\* C22: with a handle and a pod list holding at least one pod with a CNI
\* name prefix, detection returns a type of those pods, and the same result
\* for every log content.
C22_PrimaryPathWins ==
    (probe.fn = "detect_cni" /\ ~PrimaryExhausted)
    => /\ probe.out[1] \in PodTypes(Unwrap(probe.pods))
       /\ \A logs \in LogTexts :
             detect_cni([pods |-> probe.pods, logs |-> logs], TRUE) = probe.out

C22_Witness ==
    /\ probe.fn = "detect_cni"
    /\ probe.handle
    /\ probe.pods = Some(<<Pod("cilium-abc", "Running", TRUE), Pod("coredns-1", "Running", TRUE)>>)
    /\ probe.logs = Some({"flannel"})
    /\ probe.out[1] = "Cilium"

\* the refresh in flight had no type from the management API
WorldFallback(w) ==
    \/ IsSome(w.k8s)
    \/ ~IsSome(w.pods)
    \/ PodTypes(Unwrap(w.pods)) = {}

\* C23: after a refresh in which CNI detection used the log fallback (no
\* handle, a failed listing, or a listing with no CNI pod) the context's
\* k8s_error is populated; after a refresh in which the handle was
\* established it is cleared.
C23_FallbackSetsK8sError ==
    [][ (RefreshReturned /\ IsSome(self'.state.data))
        => LET ctx == Unwrap(self'.state.data).context
           IN  /\ WorldFallback(World(world)) => IsSome(ctx.k8s_error)
               /\ ~IsSome(World(world).k8s) => ~IsSome(ctx.k8s_error)
      ]_vars

\* the status the thresholds give (total - available) / total
MemoryStatus(total, available) ==
    IF (total - available) * 100 > 90 * total THEN "Fail"
    ELSE IF (total - available) * 100 > 80 * total THEN "Warn"
    ELSE "Pass"

\* C24: the memory check is Fail when used*100/total > 90, Warn when it is
\* > 80 and <= 90, Pass otherwise, with used = mem_total - mem_available:
\* exactly 90% is Warn, exactly 80% is Pass; of 16 GiB, 1 GiB available is
\* Fail, 2.8 GiB is Warn, 4 GiB is Pass.
C24_MemoryThresholds ==
    /\ (/\ probe.fn = "run_system_checks"
        /\ probe.mem.ok
        /\ probe.mem.val # <<>>
        /\ IsSome(probe.mem.val[1].meminfo))
       => LET info == Unwrap(probe.mem.val[1].meminfo)
          IN  /\ probe.out[1].id = "memory"
              /\ probe.out[1].status = MemoryStatus(info.mem_total, info.mem_available)
    /\ memory_check(MemInfo(10, 1)).status = "Warn"
    /\ memory_check(MemInfo(10, 2)).status = "Pass"
    /\ memory_check(MemInfo(160, 10)).status = "Fail"
    /\ memory_check(MemInfo(160, 28)).status = "Warn"
    /\ memory_check(MemInfo(160, 40)).status = "Pass"

C24_Witness ==
    /\ probe.fn = "run_system_checks"
    /\ probe.mem = Ok(<<[meminfo |-> Some(MemInfo(160, 16))]>>)
    /\ probe.out[1].status = "Warn"
    /\ probe.out[1].message = "14.4 / 16.0 GB (90%)"

\* the statuses of the checks with the given id
StatusesOf(checks, id) == {checks[k].status : k \in {j \in DOMAIN checks : checks[j].id = id}}

\* C25: in every check runner, when a collaborator call (memory, load
\* average, services, etcd status, kubelet log) fails, the affected check has
\* status Unknown and never Fail.
C25_FailedCallIsUnknown ==
    /\ probe.fn = "run_system_checks"
       => /\ ~probe.mem.ok => StatusesOf(probe.out, "memory") = {"Unknown"}
          /\ ~probe.load.ok => StatusesOf(probe.out, "cpu_load") = {"Unknown"}
    /\ probe.fn = "run_service_checks"
       => (~probe.services.ok => StatusesOf(probe.out, "services") = {"Unknown"})
    /\ probe.fn = "run_kubernetes_checks"
       => /\ (probe.node_role = "controlplane" /\ ~probe.etcd.ok)
             => StatusesOf(probe.out, "etcd") = {"Unknown"}
          /\ ~probe.logs.ok => StatusesOf(probe.out, "pods_crashing") = {"Unknown"}
    /\ probe.fn = "run_generic_cni_checks"
       => (~probe.logs.ok => StatusesOf(probe.out, "cni") = {"Unknown"})

RECURSIVE Flatten(_)
\* the services of every responding node, in order
Flatten(services_list) ==
    IF services_list = <<>> THEN <<>>
    ELSE services_list[1] \o Flatten(Tail(services_list))

\* C26: run_service_checks emits one check per service of every responding
\* node, with id "service_<id>": Pass with no fix iff the service reports
\* health.healthy == true, otherwise Fail with a RestartService fix for that
\* service's id.
C26_ServiceChecks ==
    (probe.fn = "run_service_checks" /\ probe.services.ok)
    => LET all == Flatten(probe.services.val)
       IN  /\ Len(probe.out) = Len(all)
           /\ \A k \in DOMAIN all :
                LET check == probe.out[k]
                    healthy == all[k].health = Some(TRUE)
                IN  /\ check.id = "service_" \o all[k].id
                    /\ (check.status = "Pass" /\ ~IsSome(check.fix)) <=> healthy
                    /\ ~healthy
                       => /\ check.status = "Fail"
                          /\ IsSome(check.fix)
                          /\ Unwrap(check.fix).action.kind = "RestartService"
                          /\ Unwrap(check.fix).action.arg = all[k].id

C26_Witness ==
    /\ probe.fn = "run_service_checks"
    /\ probe.services = Ok(<<<<Service("kubelet", "Running", Some(TRUE))>>,
                             <<Service("apid", "Finished", None)>>>>)
    /\ probe.out[1].status = "Pass"
    /\ probe.out[2].status = "Fail"
    /\ Unwrap(probe.out[2].fix).action = FixAction("RestartService", "apid", FALSE)

\* C27: after a refresh during which the management API is unavailable, no
\* add-on is reported as detected and the add-on check list is empty,
\* whatever an earlier refresh had detected; add-on checks exist only for
\* add-ons the current refresh detected.
C27_NoAddonsWithoutApi ==
    [][ (RefreshSucceeded /\ IsSome(self'.state.data))
        => LET d == Unwrap(self'.state.data)
           IN  /\ IsSome(World(world).k8s)
                  => /\ d.detected_addons = {}
                     /\ d.addon_checks = <<>>
               /\ d.addon_checks # <<>> => World(world).addons # {}
      ]_vars

\* the dialog is open on a pending fix and the key dismisses it
Dismisses(key) ==
    /\ pc = "idle"
    /\ ~self.show_details
    /\ self.show_confirmation
    /\ IsSome(self.pending_action)
    /\ \/ key \in {"Esc", "q"}
       \/ /\ key = "Enter"
          /\ self.confirmation_selection =
                IF is_host_command(Unwrap(self.pending_action).fix.action) THEN 1 ELSE 0

\* C28: from the confirmation dialog Esc, 'q', or Enter on Cancel (Close for
\* a host command) clears pending_action and closes the dialog without
\* emitting ApplyDiagnosticFix; apply_pending_fix then makes no executor
\* call, and only initiate_fix sets a pending fix again.
C28_CancelClearsPending ==
    [][ /\ \A key \in Keys :
             (Dismisses(key) /\ HandleKey(key))
             => /\ ~IsSome(self'.pending_action)
                /\ ~self'.show_confirmation
                /\ handle_key_event(self, key).ret # "ApplyDiagnosticFix"
                /\ \A write_ok \in BOOLEAN :
                      /\ apply_pending_fix_call(self', write_ok) = None
                      /\ apply_pending_fix_begin(self', write_ok) = self'
        /\ (~IsSome(self.pending_action) /\ ApplyEntered) => exec_calls' = 0
        /\ (~IsSome(self.pending_action) /\ IsSome(self'.pending_action))
             => /\ ~self.show_details /\ ~self.show_confirmation
                /\ self' = initiate_fix(self)
      ]_vars

C28_Witness ==
    /\ Dismisses("Enter")
    /\ ~is_host_command(Unwrap(self.pending_action).fix.action)
    /\ IsSome(self.client)
    /\ ~IsSome(handle_key_event(self, "Enter").c.pending_action)
    /\ handle_key_event(self, "q").c = handle_key_event(self, "Enter").c

\* C29: detect_cni returns an inventory exactly when the management-API path
\* determined the type; then the type is not Unknown and is the inventory's
\* type; a result of the log fallback carries no inventory, and a type of
\* the pods is returned without consulting the log text.
C29_InventoryOnlyFromPrimary ==
    probe.fn = "detect_cni"
    => /\ IsSome(probe.out[2]) <=> ~PrimaryExhausted
       /\ IsSome(probe.out[2])
          => /\ probe.out[1] # "Unknown"
             /\ probe.out[1] = Unwrap(probe.out[2]).cni_type
             /\ \A i \in DOMAIN Unwrap(probe.out[2]).pods :
                   CniOfPodName(Unwrap(probe.out[2]).pods[i].name) # "Unknown"
             /\ probe.out = detect_cni([pods |-> probe.pods, logs |-> None], TRUE)
       /\ PrimaryExhausted
          => probe.out = <<detect_cni_from_logs(probe.logs), None>>

C29_Witness ==
    /\ probe.fn = "detect_cni"
    /\ probe.handle
    /\ probe.pods = Some(<<Pod("coredns-1", "Running", TRUE)>>)
    /\ probe.logs = Some({"flannel"})
    /\ probe.out = <<"Flannel", None>>

\* pod p is running and ready
Healthy(p) == p.phase = "Running" /\ p.ready

Unhealthy(p) == ~Healthy(p)

\* the line of the details for pod p
DetailLine(p) == "  " \o p.name \o " - " \o p.phase \o " (ready: " \o BoolStr(p.ready) \o ")"

\* C30: check_cni_pods yields Warn "No pods found" iff the inventory is
\* empty, Pass iff it is non-empty and every pod is Running and ready, Fail
\* otherwise with details listing exactly the pods that are not
\* Running-and-ready; the empty and the unhealthy case differ in status.
C30_CniPodsCheck ==
    probe.fn = "check_cni_pods"
    => LET pods == probe.pods
           check == probe.out
           bad == SelectSeq(pods, Unhealthy)
       IN  /\ check.status = "Warn" <=> pods = <<>>
           /\ pods = <<>> => check.message = "No pods found"
           /\ check.status = "Pass"
              <=> (pods # <<>> /\ \A i \in DOMAIN pods : Healthy(pods[i]))
           /\ (pods # <<>> /\ \E i \in DOMAIN pods : Unhealthy(pods[i]))
              => /\ check.status = "Fail"
                 /\ check.details =
                       Some("Unhealthy pods:\n"
                            \o JoinLines([k \in DOMAIN bad |-> DetailLine(bad[k])]))
           /\ check.status \in {"Warn", "Pass", "Fail"}

C30_Witness ==
    /\ probe.fn = "check_cni_pods"
    /\ Len(probe.pods) = 2
    /\ Healthy(probe.pods[1])
    /\ probe.pods[2].phase = "Pending"
    /\ probe.out.status = "Fail"
    /\ probe.out.message = "1/2 pods healthy"
    /\ probe.out.details =
          Some("Unhealthy pods:\n  cilium-operator-1 - Pending (ready: false)")

----------------------------------------------------------------------------
(* Sessions, dialogs and the group view *)

\* C31: in a single-node session add_node_diagnostics changes nothing (no
\* node data is stored, the session's data is untouched) and
\* get_display_data returns the session's own data whatever the values of
\* group_view_mode and selected_node_tab.
C31_SingleNodeIgnoresGroupOps ==
    [][ ~self.is_group_view
        => /\ last_op' = Op("add_node_diagnostics", "single_node") => self' = self
           /\ DOMAIN self'.node_data = {}
           /\ \A mode \in {"Interleaved", "ByNode"}, tab \in 0..MaxProbe :
                 get_display_data([self' EXCEPT !.group_view_mode = mode,
                                                !.selected_node_tab = tab])
                   = data(self')
      ]_vars

C31_Witness ==
    /\ ~self.is_group_view
    /\ last_op = Op("add_node_diagnostics", "single_node")
    /\ DOMAIN self.node_data = {}
    /\ IsSome(data(self))
    /\ Unwrap(data(self)).service_checks # <<>>
    /\ get_display_data([self EXCEPT !.group_view_mode = "ByNode"]) = data(self)

\* C32: in every reachable state show_confirmation implies that
\* pending_action is set, on every return path of apply_pending_fix and after
\* every key event.
C32_DialogHasPendingFix ==
    self.show_confirmation => IsSome(self.pending_action)

\* every check of the loaded data, the five lists one after the other
AllChecks(d) ==
    IF IsSome(d)
    THEN Unwrap(d).system_checks \o Unwrap(d).kubernetes_checks \o Unwrap(d).cni_checks
         \o Unwrap(d).service_checks \o Unwrap(d).addon_checks
    ELSE <<>>

\* C34: when apply_pending_fix dispatches an action, the loaded data holds a
\* check with id pending.check_id that carries the pending fix, whatever
\* refresh ran between initiate_fix and the apply (stated for the sessions
\* that hold their data).
C34_PendingFixStillOffered ==
    [][ (ApplyEntered /\ IsSome(exec_call') /\ IsSome(data(self)))
        => \E k \in DOMAIN AllChecks(data(self)) :
              /\ AllChecks(data(self))[k].id = Unwrap(self.pending_action).check_id
              /\ AllChecks(data(self))[k].fix = Some(Unwrap(self.pending_action).fix)
      ]_vars

\* C35: in a group session selected_check is below the length of the
\* displayed category list whenever that list is non-empty, and 0 when it
\* is empty (stated for the sessions that hold their merged data).
C35_GroupSelectionInRange ==
    (self.is_group_view /\ IsSome(data(self)))
    => IF current_checks(self) = <<>> THEN self.selected_check = 0
       ELSE self.selected_check < Len(current_checks(self))

\* C37: show_details and show_confirmation are never both true, and while
\* either is true no key changes selected_category, selected_check, the
\* view mode or the node tab, opens a dialog or sets a pending fix, or
\* emits Refresh or Back.
C37_DialogsAreModal ==
    [][ /\ ~(self'.show_details /\ self'.show_confirmation)
        /\ \A key \in Keys :
             (/\ pc = "idle"
              /\ self.show_details \/ self.show_confirmation
              /\ HandleKey(key))
             => /\ self'.selected_category = self.selected_category
                /\ self'.selected_check = self.selected_check
                /\ self'.group_view_mode = self.group_view_mode
                /\ self'.selected_node_tab = self.selected_node_tab
                /\ self'.show_details => self.show_details
                /\ self'.show_confirmation => self.show_confirmation
                /\ self'.pending_action \in {self.pending_action, None}
                /\ handle_key_event(self, key).ret \notin {"Refresh", "Back"}
      ]_vars

C37_Witness ==
    /\ pc = "idle"
    /\ self.show_details
    /\ ~self.show_confirmation
    /\ Len(current_checks(self)) > 1
    /\ handle_key_event(self, "Tab").c = self
    /\ handle_key_event(self, "r").ret = NoAction

\* C36: what is previewed is what is applied: for a kernel-module fix the
\* preview stored by initiate_fix is the patch text apply_pending_fix
\* applies; for a configuration-patch fix the preview is the yaml passed to
\* apply_configuration, with mode Reboot iff requires_reboot and never as a
\* dry run.
C36_PreviewIsApplied ==
    [][ (ApplyEntered /\ IsSome(exec_call'))
        => LET pending == Unwrap(self.pending_action)
               call == Unwrap(exec_call')
           IN  /\ pending.fix.action.kind = "AddKernelModule"
                  => /\ call.kind = "talosctl_patch"
                     /\ pending.preview = Some(call.payload)
               /\ pending.fix.action.kind = "ApplyConfigPatch"
                  => /\ call.kind = "apply_configuration"
                     /\ pending.preview = Some(call.payload)
                     /\ call.mode = "Reboot" <=> pending.fix.action.flag
                     /\ call.mode \in {"Reboot", "Auto"}
                     /\ ~call.dry_run
      ]_vars

C36_Witness ==
    /\ pc = "applying"
    /\ last_op = Op("apply_pending_fix", "call")
    /\ IsSome(exec_call)
    /\ Unwrap(exec_call).kind = "talosctl_patch"
    /\ Unwrap(exec_call).payload = KernelModulePatch("br_netfilter")

\* the addresses of the nodes whose stored data holds a check with the id
\* and the fix of the pending action
OwnersOf(c) ==
    {Nodes[i][2] : i \in {j \in DOMAIN Nodes :
        /\ Nodes[j][1] \in DOMAIN c.node_data
        /\ \E k \in DOMAIN AllChecks(node_data_get(c, Nodes[j][1])) :
              /\ AllChecks(node_data_get(c, Nodes[j][1]))[k].id
                    = Unwrap(c.pending_action).check_id
              /\ AllChecks(node_data_get(c, Nodes[j][1]))[k].fix
                    = Some(Unwrap(c.pending_action).fix)}}

\* C33: in a group session, when a fix initiated from a check of node N is
\* applied, the executor call targets node N, never the group's placeholder
\* address or another node (stated for the call that names its target, the
\* talosctl patch).
C33_FixTargetsOwningNode ==
    [][ (self.is_group_view /\ ApplyEntered /\ IsSome(exec_call')
         /\ Unwrap(exec_call').kind = "talosctl_patch")
        => Unwrap(exec_call').node \in OwnersOf(self)
      ]_vars

\* the listing `pods` read in the order `o` of its positions
Reordered(pods, o) == [i \in DOMAIN o |-> pods[o[i]]]

\* C38: every pod of the inventory detect_cni_from_k8s returns has a name
\* with a prefix of the returned type, whatever pods the listing holds, and
\* the returned type is the same for every order of the listing.
C38_InventoryIsOfReturnedType ==
    (probe.fn = "detect_cni" /\ probe.handle /\ IsSome(probe.pods))
    => LET listing == Unwrap(probe.pods)
           info == detect_cni_from_k8s(listing, [cni_type |-> "Unknown", pods |-> <<>>])
       IN  /\ \A i \in DOMAIN info.pods :
                 CniOfPodName(info.pods[i].name) = info.cni_type
           /\ \A o \in Perms(DOMAIN listing) :
                 detect_cni_from_k8s(Reordered(listing, o),
                                     [cni_type |-> "Unknown", pods |-> <<>>]).cni_type
                   = info.cni_type

\* C39: run_system_checks returns one check with id "memory" followed by
\* one check with id "cpu_load", whatever the two collaborators answer.
C39_MemoryThenCpuLoad ==
    probe.fn = "run_system_checks"
    => /\ Len(probe.out) = 2
       /\ probe.out[1].id = "memory"
       /\ probe.out[2].id = "cpu_load"

\* C40: the merged lists of a group session are determined by the data
\* stored per node: every order in which the table of the nodes can be
\* iterated gives the lists the session shows.
C40_MergedOrderIsDetermined ==
    (self.is_group_view /\ IsSome(data(self)))
    => \A o \in Perms(DOMAIN self.node_data) :
          CheckLists(data(rebuild_group_data([self EXCEPT !.node_order = o])))
            = CheckLists(data(self))

====
